---- MODULE Spec2Model ----
(***************************************************************************)
(* One invocation of `modbus-cli read` (src/src/main.rs): read_modbus_data *)
(* parses the line configuration, prints the connection banner, opens the  *)
(* serial device, attaches the Modbus RTU context, issues one read for the *)
(* function code and reports what came back.                               *)
(*                                                                         *)
(* The serial device and the tokio-modbus context are the environment: the *)
(* open may succeed or fail, and the awaited read ends with values, with   *)
(* an exception response or with an I/O error.                             *)
(***************************************************************************)
EXTENDS Integers, Sequences, FiniteSets, TLC

VARIABLES
    parity_str,      \* --parity, a sequence of character codes
    data_bits,       \* --data-bits (u8)
    stop_bits,       \* --stop-bits (u8)
    start_address,   \* --address (u16)
    count,           \* --count (u16)
    function_code,   \* --function-code (u8)
    build,           \* "debug" (overflow checks on) or "release" (wrapping)
    pc,              \* position inside read_modbus_data
    rangeEnd,        \* the "Address Range" upper end printed by the banner, -1 before
    overflowed,      \* TRUE once some u16 arithmetic overflowed or underflowed
    opens,           \* number of SerialStream::open calls made
    portOpen,        \* TRUE while the serial stream is owned by the context
    requests,        \* number of read requests handed to the Modbus context
    inflight,        \* requests written and still awaiting their response
    txResult,        \* what the awaited read returned: none/values/exception/error
    excCode,         \* exception code of the exception response, 0 when none
    respLen,         \* number of values returned by the read, -1 when none
    labels,          \* "Address:" labels printed, one per value
    dumpLabels,      \* labels of the dump lines printed, one per chunk of 8
    stderrMsg,       \* the message written to stderr, "none" when none
    result           \* what the invocation returned: Running/Ok/ErrOpen/ErrTransport/Panic

vars == <<parity_str, data_bits, stop_bits, start_address, count, function_code,
          build, pc, rangeEnd, overflowed, opens, portOpen, requests, inflight,
          txResult, excCode, respLen, labels, dumpLabels, stderrMsg, result>>

inputs == <<parity_str, data_bits, stop_bits, start_address, count,
            function_code, build>>

----------------------------------------------------------------------------
(* Bounds of the model *)

\* longest response (in values) the device returns in the model
MaxResp == 9

\* number of requests after which a retry loop is cut off
MaxRequests == 3

----------------------------------------------------------------------------
(* Integer widths *)

\* start_address and count are u16
U16Mod == 65536

\* a + b as a u16 addition does not overflow
AddFits(a, b) == a + b < U16Mod

\* a - b as a u16 subtraction does not underflow
SubFits(a, b) == a >= b

\* the value a wrapping build leaves behind
WrappingAdd(a, b) == (a + b) % U16Mod
WrappingSub(a, b) == (a - b + U16Mod) % U16Mod

\* `x as u16` of a usize
AsU16(x) == x % U16Mod

----------------------------------------------------------------------------
(* Command line values *)

\* character codes of the parity strings tried
StrNone  == <<110, 111, 110, 101>>      \* "none"
StrNoneC == <<78, 111, 110, 101>>       \* "None"
StrODD   == <<79, 68, 68>>              \* "ODD"
StrEven  == <<101, 118, 101, 110>>      \* "even"
StrMark  == <<109, 97, 114, 107>>       \* "mark"

ParityInputs   == {StrNone, StrNoneC, StrODD, StrEven, StrMark}
DataBitsInputs == {4, 5, 6, 7, 8}
StopBitsInputs == {1, 2, 3}
AddressInputs  == {0, 1, 65534, 65535}
CountInputs    == {0, 1, 2, 10, 125, 126, 2001}
FunctionInputs == {0, 1, 2, 3, 4, 5}
Builds         == {"debug", "release"}

\* the codes of tokio_modbus::Exception
ExceptionCodes == {1, 2, 3, 4, 5, 6, 8, 10, 11}

----------------------------------------------------------------------------
(* Parsing of the line configuration, lines 151-182 *)

\* str::to_lowercase on ASCII
ToLowercase(s) == [i \in DOMAIN s |-> IF s[i] \in 65..90 THEN s[i] + 32 ELSE s[i]]

ParseParity(s) ==
    LET l == ToLowercase(s) IN
    IF l = <<110, 111, 110, 101>> THEN "None"
    ELSE IF l = <<111, 100, 100>> THEN "Odd"
    ELSE IF l = <<101, 118, 101, 110>> THEN "Even"
    ELSE "invalid"

ParseDataBits(d) ==
    IF d = 5 THEN "Five"
    ELSE IF d = 6 THEN "Six"
    ELSE IF d = 7 THEN "Seven"
    ELSE IF d = 8 THEN "Eight"
    ELSE "invalid"

ParseStopBits(s) ==
    IF s = 1 THEN "One"
    ELSE IF s = 2 THEN "Two"
    ELSE "invalid"

----------------------------------------------------------------------------
(* Exit status of the process, main lines 63-89 *)

\* main propagates read_modbus_data's Err with `?`, otherwise returns Ok(())
ExitCode(r) ==
    IF r = "Ok" THEN 0
    ELSE IF r = "Panic" THEN 101
    ELSE 1

----------------------------------------------------------------------------
(* handle_modbus_error, lines 362-379: the explanation printed for a code *)

HandleModbusError(e) ==
    IF e = 2 THEN "AddressRangeNotValid"          \* IllegalDataAddress
    ELSE IF e = 1 THEN "FunctionNotSupported"     \* IllegalFunction
    ELSE IF e = 4 THEN "SlaveDeviceError"         \* ServerDeviceFailure
    ELSE "CheckDeviceDocumentation"

----------------------------------------------------------------------------
(* display_coil_data / display_register_data: the address labels *)

\* index (0-based) of the first value whose label addition overflows, or n
FirstLabelOverflow(start, n) ==
    IF \E i \in 0..(n - 1) : ~AddFits(start, AsU16(i))
    THEN CHOOSE i \in 0..(n - 1) :
             /\ ~AddFits(start, AsU16(i))
             /\ \A j \in 0..(i - 1) : AddFits(start, AsU16(j))
    ELSE n

\* number of chunks(8) of n values
Chunks(n) == (n + 7) \div 8

\* index of the first dump line whose label addition overflows, or Chunks(n)
FirstDumpOverflow(start, n) ==
    IF \E k \in 0..(Chunks(n) - 1) : ~AddFits(start, AsU16(k * 8))
    THEN CHOOSE k \in 0..(Chunks(n) - 1) :
             /\ ~AddFits(start, AsU16(k * 8))
             /\ \A j \in 0..(k - 1) : AddFits(start, AsU16(j * 8))
    ELSE Chunks(n)

\* the per-value labels printed: a checked build stops at the first overflow
ValueLabels(start, n, b) ==
    LET m == IF b = "debug" THEN FirstLabelOverflow(start, n) ELSE n IN
    [i \in 1..m |-> WrappingAdd(start, AsU16(i - 1))]

\* the dump-line labels printed; none when the first loop already panicked
DumpLabels(start, n, b) ==
    LET m == IF b = "debug"
             THEN (IF FirstLabelOverflow(start, n) < n THEN 0
                   ELSE FirstDumpOverflow(start, n))
             ELSE Chunks(n) IN
    [k \in 1..m |-> WrappingAdd(start, AsU16((k - 1) * 8))]

\* some label addition of the display overflows
DisplayOverflows(start, n) ==
    \/ FirstLabelOverflow(start, n) < n
    \/ FirstDumpOverflow(start, n) < Chunks(n)

----------------------------------------------------------------------------
(* The invocation *)

Init ==
    /\ parity_str \in ParityInputs
    /\ data_bits \in DataBitsInputs
    /\ stop_bits \in StopBitsInputs
    /\ start_address \in AddressInputs
    /\ count \in CountInputs
    /\ function_code \in FunctionInputs
    /\ build \in Builds
    /\ pc = "parse"
    /\ rangeEnd = -1
    /\ overflowed = FALSE
    /\ opens = 0
    /\ portOpen = FALSE
    /\ requests = 0
    /\ inflight = 0
    /\ txResult = "none"
    /\ excCode = 0
    /\ respLen = -1
    /\ labels = <<>>
    /\ dumpLabels = <<>>
    /\ stderrMsg = "none"
    /\ result = "Running"

\* lines 151-182: the first invalid setting prints a message and returns Ok(())
ParseLineConfig ==
    /\ pc = "parse"
    /\ IF ParseParity(parity_str) = "invalid"
         THEN stderrMsg' = "InvalidParity" /\ result' = "Ok" /\ pc' = "done"
       ELSE IF ParseDataBits(data_bits) = "invalid"
         THEN stderrMsg' = "InvalidDataBits" /\ result' = "Ok" /\ pc' = "done"
       ELSE IF ParseStopBits(stop_bits) = "invalid"
         THEN stderrMsg' = "InvalidStopBits" /\ result' = "Ok" /\ pc' = "done"
       ELSE stderrMsg' = stderrMsg /\ result' = result /\ pc' = "banner"
    /\ UNCHANGED <<inputs, rangeEnd, overflowed, opens, portOpen, requests,
                   inflight, txResult, excCode, respLen, labels, dumpLabels>>

\* lines 184-194: the banner computes start_address + count - 1 in u16
PrintConnectionInfo ==
    /\ pc = "banner"
    /\ LET addOk == AddFits(start_address, count)
           sum   == WrappingAdd(start_address, count)
           subOk == SubFits(sum, 1)
       IN  IF addOk /\ subOk
           THEN /\ rangeEnd' = sum - 1
                /\ UNCHANGED <<overflowed, result>>
                /\ pc' = "open"
           ELSE /\ overflowed' = TRUE
                /\ IF build = "debug"
                   THEN rangeEnd' = rangeEnd /\ result' = "Panic" /\ pc' = "done"
                   ELSE /\ rangeEnd' = WrappingSub(sum, 1)
                        /\ result' = result
                        /\ pc' = "open"
    /\ UNCHANGED <<inputs, opens, portOpen, requests, inflight, txResult,
                   excCode, respLen, labels, dumpLabels, stderrMsg>>

\* lines 196-206: SerialStream::open(&builder)?, then rtu::attach_slave
OpenSerial ==
    /\ pc = "open"
    /\ opens' = opens + 1
    /\ \E ok \in BOOLEAN :
         IF ok THEN portOpen' = TRUE /\ result' = result /\ pc' = "dispatch"
         ELSE portOpen' = FALSE /\ result' = "ErrOpen" /\ pc' = "done"
    /\ UNCHANGED <<inputs, rangeEnd, overflowed, requests, inflight, txResult,
                   excCode, respLen, labels, dumpLabels, stderrMsg>>

\* IssueRead without the await: the request is written and the match is entered again
IssueReadNotAwaited ==
    /\ pc = "dispatch"
    /\ function_code \in 1..4
    /\ requests < MaxRequests
    /\ requests' = requests + 1
    /\ inflight' = inflight + 1
    /\ pc' = "dispatch"
    /\ UNCHANGED <<inputs, rangeEnd, overflowed, opens, portOpen, txResult,
                   excCode, respLen, labels, dumpLabels, stderrMsg, result>>

\* lines 209-261, arms 1..4: ctx.read_*(start_address, count) is called and awaited
IssueRead ==
    /\ pc = "dispatch"
    /\ function_code \in 1..4
    /\ requests' = requests + 1
    /\ inflight' = inflight + 1
    /\ pc' = "awaiting"
    /\ UNCHANGED <<inputs, rangeEnd, overflowed, opens, portOpen, txResult,
                   excCode, respLen, labels, dumpLabels, stderrMsg, result>>

\* lines 262-265: any other function code prints a message and returns Ok(())
UnsupportedFunction ==
    /\ pc = "dispatch"
    /\ function_code \notin 1..4
    /\ stderrMsg' = "UnsupportedFunctionCode"
    /\ result' = "Ok"
    /\ portOpen' = FALSE
    /\ pc' = "done"
    /\ UNCHANGED <<inputs, rangeEnd, overflowed, opens, requests, inflight,
                   txResult, excCode, respLen, labels, dumpLabels>>

\* lines 213-217, 226-230, 239-243, 252-256: Ok(values) is displayed; the read
\* returns at most `count` values
ReceiveValues ==
    /\ pc = "awaiting"
    /\ \E n \in 0..MaxResp :
         /\ n <= count
         /\ respLen' = n
         /\ labels' = ValueLabels(start_address, n, build)
         /\ dumpLabels' = DumpLabels(start_address, n, build)
         /\ overflowed' = (overflowed \/ DisplayOverflows(start_address, n))
         /\ result' = IF build = "debug" /\ DisplayOverflows(start_address, n)
                      THEN "Panic" ELSE "Ok"
    /\ txResult' = "values"
    /\ inflight' = inflight - 1
    /\ portOpen' = FALSE
    /\ pc' = "done"
    /\ UNCHANGED <<inputs, rangeEnd, opens, requests, excCode, stderrMsg>>

\* lines 218-220, 231-233, 244-246, 257-259, then 268: Err(exception) is explained
\* by handle_modbus_error and the function returns Ok(())
ReceiveException ==
    /\ pc = "awaiting"
    /\ \E e \in ExceptionCodes :
         /\ excCode' = e
         /\ stderrMsg' = HandleModbusError(e)
    /\ txResult' = "exception"
    /\ inflight' = inflight - 1
    /\ result' = "Ok"
    /\ portOpen' = FALSE
    /\ pc' = "done"
    /\ UNCHANGED <<inputs, rangeEnd, overflowed, opens, requests, respLen,
                   labels, dumpLabels>>

\* ReceiveError with a retry: the error sends the function back to the match
ReceiveErrorRetried ==
    /\ pc = "awaiting"
    /\ txResult' = "error"
    /\ inflight' = inflight - 1
    /\ IF requests < MaxRequests
       THEN result' = result /\ portOpen' = portOpen /\ pc' = "dispatch"
       ELSE result' = "ErrTransport" /\ portOpen' = FALSE /\ pc' = "done"
    /\ UNCHANGED <<inputs, rangeEnd, overflowed, opens, requests, excCode,
                   respLen, labels, dumpLabels, stderrMsg>>

\* lines 212, 225, 238, 251: the outer Err of the awaited read (I/O or framing
\* failure) leaves through `?`
ReceiveError ==
    /\ pc = "awaiting"
    /\ txResult' = "error"
    /\ inflight' = inflight - 1
    /\ result' = "ErrTransport"
    /\ portOpen' = FALSE
    /\ pc' = "done"
    /\ UNCHANGED <<inputs, rangeEnd, overflowed, opens, requests, excCode,
                   respLen, labels, dumpLabels, stderrMsg>>

Next ==
    \/ ParseLineConfig
    \/ PrintConnectionInfo
    \/ OpenSerial
    \/ IssueRead
    \/ UnsupportedFunction
    \/ ReceiveValues
    \/ ReceiveException
    \/ ReceiveError

Spec == Init /\ [][Next]_vars

----------------------------------------------------------------------------
(* Vocabulary of the properties *)

\* the line configuration passes all three parses
LineConfigValid ==
    /\ ParseParity(parity_str) # "invalid"
    /\ ParseDataBits(data_bits) # "invalid"
    /\ ParseStopBits(stop_bits) # "invalid"

\* the protocol ceiling of a read: 2000 bits, 125 registers
Ceiling(fc) == IF fc \in {1, 2} THEN 2000 ELSE 125

QuantityOutOfRange == count = 0 \/ count > Ceiling(function_code)

\* start_address + count - 1 can be computed in u16 without overflow or underflow
BannerFits == AddFits(start_address, count) /\ SubFits(start_address + count, 1)

\* the last address of the request lies beyond the 16-bit address space
RangeBeyondU16 == start_address + count - 1 > U16Mod - 1

\* a request the protocol allows: quantity within 1..ceiling, range within u16
RequestValid ==
    function_code \in 1..4 /\ ~QuantityOutOfRange /\ BannerFits /\ ~RangeBeyondU16

\* the invocation has not ended in anything but a validation error
OnlyValidationError == result \in {"Running", "ValidationError"}

----------------------------------------------------------------------------
(* Properties *)

\* C1: a read with function code 1-4 whose quantity is 0 or above the function's
\* ceiling (2000 for codes 1 and 2, 125 for codes 3 and 4) fails with a
\* ValidationError and its read call is never issued on the Modbus context.
\* Stated for invocations whose line configuration is valid, whose banner
\* arithmetic fits and whose device can be opened, so that only the quantity is
\* at fault.
C1_BadQuantityRejectedBeforeWire ==
    (/\ LineConfigValid /\ BannerFits /\ result # "ErrOpen"
     /\ function_code \in 1..4 /\ QuantityOutOfRange)
        => (requests = 0 /\ inflight = 0 /\ OnlyValidationError)

\* C2: no u16 arithmetic on start_address and count overflows or underflows for
\* any input, and a request whose last address start_address + count - 1 exceeds
\* 65535 is rejected with a ValidationError before the device is used.
C2_NoOverflowAndRangeRejected ==
    /\ ~overflowed
    /\ (LineConfigValid /\ RangeBeyondU16)
           => (opens = 0 /\ requests = 0 /\ OnlyValidationError)

\* C3: a function code outside {1,2,3,4} ends in a validation error, not in
\* success, and is rejected before the serial device is opened and before any
\* request is written.  Stated for invocations whose line configuration is valid
\* and whose banner arithmetic fits, so that only the function code is at fault.
C3_UnsupportedCodeRejectedLocally ==
    (LineConfigValid /\ BannerFits /\ function_code \notin 1..4)
        => (opens = 0 /\ requests = 0 /\ OnlyValidationError)

\* C4: with an invalid line configuration (parity not none/odd/even in any case,
\* data bits not in 5..8, stop bits not in 1..2) the serial device is never
\* opened and the invocation returns a failure, a ValidationError, not success.
C4_InvalidLineConfigFails ==
    ~LineConfigValid => (opens = 0 /\ OnlyValidationError)

\* C5: a failure reaches the caller as an outcome distinguishable from success:
\* when the device answers with an exception response, the invocation does not
\* return the Ok value (exit status 0) that a successful read returns.
\* Stated for requests the protocol allows.
C5_ExceptionNotReturnedAsOk ==
    (RequestValid /\ pc = "done" /\ txResult = "exception")
        => (result # "Ok" /\ ExitCode(result) # 0)

\* C6: at every point there is at most one in-flight transaction on the open
\* transport: a request is in flight exactly while the invocation awaits its
\* response, on a stream the context owns, and none is written meanwhile.
C6_AtMostOneInFlight ==
    /\ inflight \in {0, 1}
    /\ inflight = 1 <=> pc = "awaiting"
    /\ inflight = 1 => (portOpen /\ requests = 1)

\* a request is in flight, awaiting its response
C6_Witness == pc = "awaiting" /\ inflight = 1 /\ portOpen

\* C7: no retry and no reconnection: the device is opened at most once and at
\* most one request is issued; once the read has returned (values, exception
\* response or error) the invocation is over with nothing in flight, and what
\* it reports is what that one transaction returned.
C7_NoRetry ==
    /\ opens <= 1
    /\ requests <= 1
    /\ txResult # "none" =>
           /\ pc = "done" /\ requests = 1 /\ inflight = 0 /\ ~portOpen
           /\ txResult = "error" => result = "ErrTransport"
           /\ txResult = "exception" => stderrMsg = HandleModbusError(excCode)
           /\ txResult = "values" => respLen >= 0

\* the single transaction failed with an error and the invocation ended with it
C7_Witness ==
    pc = "done" /\ txResult = "error" /\ opens = 1 /\ requests = 1

\* C9: every individually named exception code (IllegalFunction=1,
\* IllegalDataAddress=2, IllegalDataValue=3, ServerDeviceFailure=4) is reported
\* with its own explanation; only the other codes get the generic message.
\* Stated for requests the protocol allows.
C9_NamedCodesExplained ==
    (RequestValid /\ txResult = "exception" /\ excCode \in 1..4)
        => /\ stderrMsg # "CheckDeviceDocumentation"
           /\ \A e \in (1..4) \ {excCode} : stderrMsg # HandleModbusError(e)

\* C10: when n values are displayed, value i is labelled start_address + i and
\* dump line k is labelled start_address + 8k, without overflow or wraparound,
\* so the labels are strictly increasing; the display completes.
C10_LabelsAreAddresses ==
    txResult = "values" =>
        /\ result = "Ok"
        /\ Len(labels) = respLen
        /\ \A i \in 1..Len(labels) : labels[i] = start_address + (i - 1)
        /\ Len(dumpLabels) = Chunks(respLen)
        /\ \A k \in 1..Len(dumpLabels) : dumpLabels[k] = start_address + 8 * (k - 1)

====
